---------------------------- MODULE Spec2Model ----------------------------
(***************************************************************************)
(* Elevator dispatch simulation (src/main.cpp): the per-elevator state     *)
(* machine, the elevator's floor queue and floor-by-floor movement, the    *)
(* nearest-elevator selection strategy and the manager's observer list.    *)
(*                                                                         *)
(* The program is single-threaded.  A public call (a request submitted to  *)
(* the manager, a floor pushed to an elevator, a request made of a state   *)
(* object) runs to completion before the caller continues; pc is the       *)
(* position inside the call in progress and call is its frame.             *)
(***************************************************************************)
EXTENDS Integers, Sequences, FiniteSets, TLC

\* Call floors are 1..MaxFloor; the code does not bound them.
MaxFloor == 3
\* Longest floorQueue the model lets a call produce; the code does not bound it.
MaxQueue == 2
\* main() creates two elevators and three panels.
NumElevators == 2
NumPanels == 3

Floors == 1..MaxFloor

\* enum class Direction
Direction == {"UP", "DOWN"}
\* enum class StateType
StateType == {"IDLE", "MOVING_UP", "MOVING_DOWN"}

VARIABLES
    elevators,  \* ElevatorManager::elevators, in registration order; each
                \* entry is the registered Elevator (currentFloor, state, floorQueue)
    observers,  \* ElevatorManager::observers, in registration order; each
                \* entry is the panel's currentDisplayFloor
    pc,         \* position of the call in progress: idle, selected, moving, done
    call,       \* frame of the call in progress
    trace       \* lines written to the output since the call began

vars == <<elevators, observers, pc, call, trace>>

Abs(x) == IF x < 0 THEN -x ELSE x

Units == 1..Len(elevators)

-----------------------------------------------------------------------------
(* State pattern: the three concrete states' moveUp / moveDown / stop.      *)
(* Each returns the type of the elevator's state object after the request.  *)

moveUp(s) ==
    CASE s = "IDLE"        -> "MOVING_UP"      \* IdleState::moveUp
      [] s = "MOVING_UP"   -> "MOVING_UP"      \* MovingUpState::moveUp {}
      [] s = "MOVING_DOWN" -> "MOVING_UP"      \* MovingDownState::moveUp

\* moveDown with MovingUpState::moveDown left empty, as MovingUpState::moveUp is.
moveDownIgnoredGoingUp(s) ==
    CASE s = "IDLE"        -> "MOVING_DOWN"
      [] s = "MOVING_UP"   -> "MOVING_UP"
      [] s = "MOVING_DOWN" -> "MOVING_DOWN"

moveDown(s) ==
    CASE s = "IDLE"        -> "MOVING_DOWN"    \* IdleState::moveDown
      [] s = "MOVING_UP"   -> "MOVING_DOWN"    \* MovingUpState::moveDown
      [] s = "MOVING_DOWN" -> "MOVING_DOWN"    \* MovingDownState::moveDown {}

\* stop with MovingUpState::stop left empty, as IdleState::stop is.
stopIgnoredGoingUp(s) ==
    CASE s = "IDLE"        -> "IDLE"
      [] s = "MOVING_UP"   -> "MOVING_UP"
      [] s = "MOVING_DOWN" -> "IDLE"

\* stop with MovingDownState::stop left empty, as IdleState::stop is.
stopIgnoredGoingDown(s) ==
    CASE s = "IDLE"        -> "IDLE"
      [] s = "MOVING_UP"   -> "IDLE"
      [] s = "MOVING_DOWN" -> "MOVING_DOWN"

stop(s) ==
    CASE s = "IDLE"        -> "IDLE"           \* IdleState::stop {}
      [] s = "MOVING_UP"   -> "IDLE"           \* MovingUpState::stop
      [] s = "MOVING_DOWN" -> "IDLE"           \* MovingDownState::stop

\* One output line.  ev names the statement that wrote it.
Line(ev, unit, floor, state) ==
    [ev |-> ev, unit |-> unit, floor |-> floor, state |-> state]

\* OuterPanel::update prints one line for the panel that received the event.
update(panel, floor, state) == Line("update", panel, floor, state)

\* setState called by the no-op requests too: a line for every request.
setStateAlways(unit, old, new) == <<Line("state", unit, 0, new)>>

\* Elevator::setState prints one line, and only when a state object is
\* replaced: the no-op requests never call it.
setState(unit, old, new) ==
    IF old = new THEN <<>> ELSE <<Line("state", unit, 0, new)>>

-----------------------------------------------------------------------------
(* Strategy pattern: NearestElevatorStrategy::selectElevator.               *)
(* Returns the index of the chosen elevator, 0 for nullptr.                 *)

\* The loop with an Idle elevator taken only when the call's direction leads
\* away from it: not above the call floor for UP, not below it for DOWN.
RECURSIVE selectLoopIdleByDirection(_, _, _, _, _, _)
selectLoopIdleByDirection(floor, direction, elevs, k, nearestElevator, shortestDistance) ==
    IF k > Len(elevs) THEN nearestElevator
    ELSE
      LET distance     == Abs(floor - elevs[k].currentFloor)
          currentState == elevs[k].state
      IN  IF currentState = "IDLE" /\ distance < shortestDistance
             /\ (direction = "UP" => elevs[k].currentFloor <= floor)
             /\ (direction = "DOWN" => elevs[k].currentFloor >= floor)
            THEN selectLoopIdleByDirection(floor, direction, elevs, k + 1, k, distance)
          ELSE IF direction = "UP" /\ currentState = "MOVING_UP"
                  /\ elevs[k].currentFloor < floor /\ distance < shortestDistance
            THEN selectLoopIdleByDirection(floor, direction, elevs, k + 1, k, distance)
          ELSE IF direction = "DOWN" /\ currentState = "MOVING_DOWN"
                  /\ elevs[k].currentFloor > floor /\ distance < shortestDistance
            THEN selectLoopIdleByDirection(floor, direction, elevs, k + 1, k, distance)
          ELSE selectLoopIdleByDirection(floor, direction, elevs, k + 1,
                                         nearestElevator, shortestDistance)

\* The loop with distance <= shortestDistance in place of <: the last of the
\* equally distant candidates wins.
RECURSIVE selectLoopLastWins(_, _, _, _, _, _)
selectLoopLastWins(floor, direction, elevs, k, nearestElevator, shortestDistance) ==
    IF k > Len(elevs) THEN nearestElevator
    ELSE
      LET distance     == Abs(floor - elevs[k].currentFloor)
          currentState == elevs[k].state
      IN  IF currentState = "IDLE" /\ distance <= shortestDistance
            THEN selectLoopLastWins(floor, direction, elevs, k + 1, k, distance)
          ELSE IF direction = "UP" /\ currentState = "MOVING_UP"
                  /\ elevs[k].currentFloor < floor /\ distance <= shortestDistance
            THEN selectLoopLastWins(floor, direction, elevs, k + 1, k, distance)
          ELSE IF direction = "DOWN" /\ currentState = "MOVING_DOWN"
                  /\ elevs[k].currentFloor > floor /\ distance <= shortestDistance
            THEN selectLoopLastWins(floor, direction, elevs, k + 1, k, distance)
          ELSE selectLoopLastWins(floor, direction, elevs, k + 1,
                                  nearestElevator, shortestDistance)

RECURSIVE selectLoop(_, _, _, _, _, _)
selectLoop(floor, direction, elevs, k, nearestElevator, shortestDistance) ==
    IF k > Len(elevs) THEN nearestElevator
    ELSE
      LET distance     == Abs(floor - elevs[k].currentFloor)
          currentState == elevs[k].state
      IN  IF currentState = "IDLE" /\ distance < shortestDistance
            THEN selectLoop(floor, direction, elevs, k + 1, k, distance)
          ELSE IF direction = "UP" /\ currentState = "MOVING_UP"
                  /\ elevs[k].currentFloor < floor /\ distance < shortestDistance
            THEN selectLoop(floor, direction, elevs, k + 1, k, distance)
          ELSE IF direction = "DOWN" /\ currentState = "MOVING_DOWN"
                  /\ elevs[k].currentFloor > floor /\ distance < shortestDistance
            THEN selectLoop(floor, direction, elevs, k + 1, k, distance)
          ELSE selectLoop(floor, direction, elevs, k + 1, nearestElevator, shortestDistance)

\* selectElevator without the test for an empty registry: it returns the
\* first slot of the vector whatever the vector holds.
selectElevatorUnchecked(floor, direction, elevs) ==
    IF Len(elevs) = 0 THEN 1
    ELSE selectLoop(floor, direction, elevs, 1, 1, Abs(floor - elevs[1].currentFloor))

selectElevator(floor, direction, elevs) ==
    IF Len(elevs) = 0 THEN 0
    ELSE selectLoop(floor, direction, elevs, 1, 1, Abs(floor - elevs[1].currentFloor))

-----------------------------------------------------------------------------
(* Frames.                                                                  *)

NoCall ==
    [kind |-> "none", floor |-> 0, dir |-> "UP", unit |-> 0, target |-> 0,
     start |-> 0, recv |-> "IDLE", pending |-> <<>>, serviced |-> <<>>,
     state |-> "IDLE"]

Init ==
    /\ elevators = <<>>
    /\ observers = <<>>
    /\ pc = "idle"
    /\ call = NoCall
    /\ trace = <<>>

\* The constructor with currentFloor(0): floors counted from zero.
addElevatorAtZero ==
    /\ pc = "idle"
    /\ Len(elevators) < NumElevators
    /\ elevators' = Append(elevators,
                      [currentFloor |-> 0, state |-> "IDLE", floorQueue |-> <<>>])
    /\ UNCHANGED <<observers, pc, call, trace>>

\* new Elevator(id, manager); manager->addElevator(elevator)
addElevator ==
    /\ pc = "idle"
    /\ Len(elevators) < NumElevators
    /\ elevators' = Append(elevators,
                      [currentFloor |-> 1, state |-> "IDLE", floorQueue |-> <<>>])
    /\ UNCHANGED <<observers, pc, call, trace>>

\* new OuterPanel(floor, manager); manager->addPanel(panel)
addPanel ==
    /\ pc = "idle"
    /\ Len(observers) < NumPanels
    /\ observers' = Append(observers, 1)
    /\ UNCHANGED <<elevators, pc, call, trace>>

\* processQueue with floorQueue.back() in place of floorQueue.front(): the
\* floor just pushed is the target.
enqueueTargetsPushed(unit, floor) ==
    LET e           == elevators[unit]
        q           == Append(e.floorQueue, floor)
        targetFloor == floor
        s           == IF targetFloor > e.currentFloor THEN moveUp(e.state)
                       ELSE IF targetFloor < e.currentFloor THEN moveDown(e.state)
                       ELSE e.state
    IN  [elevator |-> [e EXCEPT !.floorQueue = q, !.state = s],
         target   |-> targetFloor,
         moves    |-> targetFloor # e.currentFloor,
         lines    |-> <<Line("received", unit, floor, ""),
                        Line("processing", unit, targetFloor, "")>>
                      \o setState(unit, e.state, s)]

\* Elevator::addToQueue followed by Elevator::processQueue up to the call of
\* simulateMovement: push, peek the front, request moveUp or moveDown.
\* Gives the unit after it, the lines printed, and whether simulateMovement
\* is entered.
enqueue(unit, floor) ==
    LET e           == elevators[unit]
        q           == Append(e.floorQueue, floor)
        targetFloor == Head(q)
        s           == IF targetFloor > e.currentFloor THEN moveUp(e.state)
                       ELSE IF targetFloor < e.currentFloor THEN moveDown(e.state)
                       ELSE e.state
    IN  [elevator |-> [e EXCEPT !.floorQueue = q, !.state = s],
         target   |-> targetFloor,
         moves    |-> targetFloor # e.currentFloor,
         lines    |-> <<Line("received", unit, floor, ""),
                        Line("processing", unit, targetFloor, "")>>
                      \o setState(unit, e.state, s)]

\* ElevatorManager::addToQueue, first half: print and select.
ManagerAddToQueue(floor, direction) ==
    /\ pc = "idle"
    /\ LET selectedElevator == selectElevator(floor, direction, elevators)
       IN  /\ selectedElevator \in Units =>
                Len(elevators[selectedElevator].floorQueue) < MaxQueue
           /\ call' = [NoCall EXCEPT !.kind = "submit", !.floor = floor,
                                    !.dir = direction, !.unit = selectedElevator]
    /\ pc' = "selected"
    /\ trace' = <<Line("request", 0, floor, "")>>
    /\ UNCHANGED <<elevators, observers>>

\* The second half forwarding to elevators[0] instead of the selected elevator.
ForwardToFirst ==
    /\ pc = "selected"
    /\ IF call.unit = 0
         THEN /\ pc' = "done"
              /\ UNCHANGED <<elevators, call, trace>>
         ELSE LET e == elevators[1]
                  r == enqueue(1, call.floor)
              IN  /\ elevators' = [elevators EXCEPT ![1] = r.elevator]
                  /\ call' = [call EXCEPT !.target = r.target,
                                          !.start = e.currentFloor,
                                          !.recv = e.state,
                                          !.pending = e.floorQueue]
                  /\ trace' = trace \o r.lines
                  /\ pc' = IF r.moves THEN "moving" ELSE "done"
    /\ UNCHANGED observers

\* ElevatorManager::addToQueue, second half: if (selectedElevator)
\* selectedElevator->addToQueue(floor).
Forward ==
    /\ pc = "selected"
    /\ IF call.unit = 0
         THEN /\ pc' = "done"
              /\ UNCHANGED <<elevators, call, trace>>
         ELSE LET e == elevators[call.unit]
                  r == enqueue(call.unit, call.floor)
              IN  /\ elevators' = [elevators EXCEPT ![call.unit] = r.elevator]
                  /\ call' = [call EXCEPT !.target = r.target,
                                          !.start = e.currentFloor,
                                          !.recv = e.state,
                                          !.pending = e.floorQueue]
                  /\ trace' = trace \o r.lines
                  /\ pc' = IF r.moves THEN "moving" ELSE "done"
    /\ UNCHANGED observers

\* elevator->addToQueue(floor), called on a registered elevator directly.
ElevatorAddToQueue(unit, floor) ==
    /\ pc = "idle"
    /\ unit \in Units
    /\ Len(elevators[unit].floorQueue) < MaxQueue
    /\ LET e == elevators[unit]
           r == enqueue(unit, floor)
       IN  /\ elevators' = [elevators EXCEPT ![unit] = r.elevator]
           /\ call' = [NoCall EXCEPT !.kind = "enqueue", !.floor = floor,
                                    !.unit = unit, !.target = r.target,
                                    !.start = e.currentFloor, !.recv = e.state,
                                    !.pending = e.floorQueue]
           /\ trace' = r.lines
           /\ pc' = IF r.moves THEN "moving" ELSE "done"
    /\ UNCHANGED observers

\* The loop body with the comparison inverted: a step away from the target.
simulateStepAway ==
    /\ pc = "moving"
    /\ LET e == elevators[call.unit]
       IN  /\ e.currentFloor # call.target
           /\ LET f == IF call.target < e.currentFloor
                         THEN e.currentFloor + 1 ELSE e.currentFloor - 1
              IN  /\ elevators' = [elevators EXCEPT ![call.unit].currentFloor = f]
                  /\ trace' = Append(trace, Line("floor", call.unit, f, ""))
    /\ UNCHANGED <<observers, pc, call>>

\* Elevator::simulateMovement, one iteration of the while loop.
simulateStep ==
    /\ pc = "moving"
    /\ LET e == elevators[call.unit]
       IN  /\ e.currentFloor # call.target
           /\ LET f == IF call.target > e.currentFloor
                         THEN e.currentFloor + 1 ELSE e.currentFloor - 1
              IN  /\ elevators' = [elevators EXCEPT ![call.unit].currentFloor = f]
                  /\ trace' = Append(trace, Line("floor", call.unit, f, ""))
    /\ UNCHANGED <<observers, pc, call>>

\* Elevator::simulateMovement after the loop: floorQueue.pop(); state->stop().
simulateExit ==
    /\ pc = "moving"
    /\ LET e == elevators[call.unit]
           s == stop(e.state)
       IN  /\ e.currentFloor = call.target
           /\ elevators' = [elevators EXCEPT
                              ![call.unit].floorQueue = Tail(e.floorQueue),
                              ![call.unit].state = s]
           /\ call' = [call EXCEPT !.serviced = Append(@, Head(e.floorQueue))]
           /\ trace' = trace \o setState(call.unit, e.state, s)
    /\ pc' = "done"
    /\ UNCHANGED observers

\* The call returns to its caller.
Return ==
    /\ pc = "done"
    /\ pc' = "idle"
    /\ call' = NoCall
    /\ trace' = <<>>
    /\ UNCHANGED <<elevators, observers>>

\* elevator->getState()->moveUp() / moveDown() / stop(), called on the state
\* object of a registered elevator directly.  call.recv is the type of the
\* state object that received the request.
StateRequest(unit, op) ==
    /\ pc = "idle"
    /\ unit \in Units
    /\ LET e == elevators[unit]
           s == CASE op = "moveUp"   -> moveUp(e.state)
                  [] op = "moveDown" -> moveDown(e.state)
                  [] op = "stop"     -> stop(e.state)
       IN  /\ elevators' = [elevators EXCEPT ![unit].state = s]
           /\ call' = [NoCall EXCEPT !.kind = op, !.unit = unit,
                                    !.start = e.currentFloor, !.recv = e.state,
                                    !.pending = e.floorQueue]
           /\ trace' = setState(unit, e.state, s)
    /\ pc' = "done"
    /\ UNCHANGED observers

Requests == {"moveUp", "moveDown", "stop"}

\* The loop of notifyObservers with the first observer left out.
notifyObserversSkipsFirst(floor, state) ==
    [observers |-> [p \in 1..Len(observers) |->
                       IF p = 1 THEN observers[p] ELSE floor],
     lines     |-> [p \in 1..(Len(observers) - 1) |-> update(p + 1, floor, state)]]

\* ElevatorManager::notifyObservers: observer->update(floor, state) for each
\* observer in the order of the vector.  Gives the panels after it and the
\* lines they print.
notifyObservers(floor, state) ==
    [observers |-> [p \in 1..Len(observers) |-> floor],
     lines     |-> [p \in 1..Len(observers) |-> update(p, floor, state)]]

\* manager->notifyObservers(floor, state), called by the caller directly:
\* nothing in Elevator calls it.
NotifyObservers(floor, state) ==
    /\ pc = "idle"
    /\ LET r == notifyObservers(floor, state)
       IN  /\ observers' = r.observers
           /\ trace' = r.lines
    /\ call' = [NoCall EXCEPT !.kind = "notify", !.floor = floor, !.state = state]
    /\ pc' = "done"
    /\ UNCHANGED elevators

Next ==
    \/ addElevator
    \/ addPanel
    \/ \E floor \in Floors, direction \in Direction : ManagerAddToQueue(floor, direction)
    \/ Forward
    \/ \E unit \in 1..NumElevators, floor \in Floors : ElevatorAddToQueue(unit, floor)
    \/ simulateStep
    \/ simulateExit
    \/ Return

\* The program as main() drives it: every request reaches an elevator through
\* the manager or the elevator's own queue.
Spec == Init /\ [][Next]_vars

\* The same program with the state objects' public requests also issued
\* directly by the caller.
NextOpen ==
    \/ addElevator
    \/ \E floor \in Floors, direction \in Direction : ManagerAddToQueue(floor, direction)
    \/ Forward
    \/ simulateStep
    \/ simulateExit
    \/ Return
    \/ \E unit \in 1..NumElevators, op \in Requests : StateRequest(unit, op)

SpecOpen == Init /\ [][NextOpen]_vars

\* The program with the manager's notifyObservers also called by the caller.
NextNotify ==
    \/ addElevator
    \/ addPanel
    \/ \E floor \in Floors, direction \in Direction : ManagerAddToQueue(floor, direction)
    \/ Forward
    \/ simulateStep
    \/ simulateExit
    \/ Return
    \/ \E floor \in Floors, state \in StateType : NotifyObservers(floor, state)

SpecNotify == Init /\ [][NextNotify]_vars

-----------------------------------------------------------------------------
(* Properties.                                                              *)

\* The call in progress pushed a floor to an elevator's queue.
Enqueued == call.kind \in {"submit", "enqueue"} /\ call.unit # 0

\* The elevator the call in progress works on.
Chosen == elevators[call.unit]

\* The update lines panel p received since the call began.
Received(p) == SelectSeq(trace, LAMBDA l : l.ev = "update" /\ l.unit = p)

\* The events a trip from floor a to floor b owes panel p: one per floor
\* passed, in the state of the motion, then one Idle event at b.
TripEvents(p, a, b) ==
    [k \in 1..(Abs(b - a) + 1) |->
        IF k <= Abs(b - a)
          THEN update(p, IF b > a THEN a + k ELSE a - k,
                      IF b > a THEN "MOVING_UP" ELSE "MOVING_DOWN")
          ELSE update(p, b, "IDLE")]

\* C1: when a floor equal to the elevator's current floor is pushed to its
\* queue, then on return the elevator has not moved, is Idle, and the pushed
\* entry has been popped (the queue is no longer than before the call).
DegenerateTripConsumed ==
    (pc = "done" /\ Enqueued /\ call.floor = call.start) =>
        /\ Chosen.currentFloor = call.start
        /\ Chosen.state = "IDLE"
        /\ Len(Chosen.floorQueue) = Len(call.pending)
        /\ call.serviced = <<call.floor>>

\* C2: when a trip from floor A to floor B, A # B, has completed, every
\* registered observer has received exactly |B - A| floor-step events in the
\* state of the motion, followed by exactly one Idle event at floor B.
EventCompleteness ==
    (pc = "done" /\ Enqueued /\ call.start # call.target) =>
        \A p \in 1..Len(observers) :
            Received(p) = TripEvents(p, call.start, call.target)

\* C3: when a push to an elevator's queue returns, the floors serviced by
\* the call are exactly the entries that were outstanding, in the order they
\* were pushed, followed by the pushed floor: every entry pushed so far has
\* been serviced once, in arrival order.
QueueOrdering ==
    (pc = "done" /\ Enqueued) =>
        call.serviced = Append(call.pending, call.floor)

\* C4: when a call is submitted and the chosen elevator is Idle with an empty
\* queue at a floor other than the call floor, then on return the chosen
\* elevator is at the call floor, Idle, with an empty queue.
TripCompletion ==
    (/\ pc = "done" /\ call.kind = "submit" /\ call.unit # 0
     /\ call.recv = "IDLE" /\ call.pending = <<>> /\ call.start # call.floor) =>
        /\ Chosen.currentFloor = call.floor
        /\ Chosen.state = "IDLE"
        /\ Chosen.floorQueue = <<>>

\* A submitted call has returned after a two-floor descent of the chosen
\* elevator, with a second elevator registered.
TripCompletionWitness ==
    /\ pc = "done" /\ call.kind = "submit" /\ call.unit # 0 /\ Len(elevators) = 2
    /\ call.recv = "IDLE" /\ call.pending = <<>>
    /\ call.start = 3 /\ call.floor = 1
    /\ Chosen.currentFloor = 1

\* The transition table of the motion state machine.
TransitionTable ==
    [IDLE        |-> [moveUp |-> "MOVING_UP", moveDown |-> "MOVING_DOWN", stop |-> "IDLE"],
     MOVING_UP   |-> [moveUp |-> "MOVING_UP", moveDown |-> "MOVING_DOWN", stop |-> "IDLE"],
     MOVING_DOWN |-> [moveUp |-> "MOVING_UP", moveDown |-> "MOVING_DOWN", stop |-> "IDLE"]]

\* The request processQueue makes of the state object for the trip in progress.
TripRequest == IF call.target > call.start THEN "moveUp" ELSE "moveDown"

\* Every elevator is in one of the three states, and the state after each
\* request is the table's: after a request made of the state object directly,
\* after the request that starts a trip, and after the stop that ends it.
TableFollowed ==
    /\ \A i \in Units : elevators[i].state \in StateType
    /\ (pc = "done" /\ call.kind \in Requests) =>
          Chosen.state = TransitionTable[call.recv][call.kind]
    /\ (pc = "moving") =>
          Chosen.state = TransitionTable[call.recv][TripRequest]
    /\ (pc = "done" /\ Enqueued /\ call.start # call.target) =>
          Chosen.state = TransitionTable[TransitionTable[call.recv][TripRequest]]["stop"]

\* An elevator that has just been created and registered is Idle.
StartsIdle ==
    Len(elevators') > Len(elevators) => elevators'[Len(elevators')].state = "IDLE"

\* C5: for every elevator and every sequence of moveUp / moveDown / stop
\* requests the resulting state is the one the transition table gives; an
\* elevator starts Idle and is always in exactly one of the three states.
StateMachineLegality == []TableFollowed /\ [][StartsIdle]_vars

\* A moveDown request made of a MovingUp state object has returned.
StateMachineLegalityWitness ==
    /\ pc = "done" /\ call.kind = "moveDown" /\ call.recv = "MOVING_UP"
    /\ Chosen.state = "MOVING_DOWN"

\* The distance of elevator i from floor f.
Distance(i, f) == Abs(f - elevators[i].currentFloor)

\* Elevator i is Idle, or already moving toward floor f in direction d.
Eligible(i, f, d) ==
    \/ elevators[i].state = "IDLE"
    \/ d = "UP" /\ elevators[i].state = "MOVING_UP" /\ elevators[i].currentFloor < f
    \/ d = "DOWN" /\ elevators[i].state = "MOVING_DOWN" /\ elevators[i].currentFloor > f

\* The candidates of a call: the first elevator, and every eligible one.
Candidates(f, d) == {i \in Units : i = 1 \/ Eligible(i, f, d)}

\* The first candidate, in registration order, at the least distance any
\* candidate has.
Reference(f, d) ==
    CHOOSE i \in Candidates(f, d) :
        /\ \A j \in Candidates(f, d) : Distance(i, f) <= Distance(j, f)
        /\ \A j \in Candidates(f, d) : Distance(j, f) = Distance(i, f) => i <= j

IdlePreference ==
    (pc = "selected") =>
        \A i, j \in Units :
            (/\ elevators[i].state = "IDLE" /\ elevators[j].state # "IDLE"
             /\ Distance(i, call.floor) <= Distance(j, call.floor))
            => call.unit # j

\* C8: a selected elevator that is not Idle is moving toward the call in the
\* call's direction.
MovingUnitEligibility ==
    (pc = "selected" /\ call.unit # 0 /\ Chosen.state # "IDLE") =>
        Eligible(call.unit, call.floor, call.dir)

\* Lines that report an elevator's status: movement, state changes, panel updates.
StatusLines == SelectSeq(trace, LAMBDA l : l.ev \in {"floor", "state", "update"})

\* During a call submitted to an empty registry nothing is selected and no
\* status line is written; on a non-empty registry a call always selects a
\* registered elevator.
EmptyRegistryDrops ==
    /\ (call.kind = "submit" /\ Len(elevators) = 0) =>
          call.unit = 0 /\ StatusLines = <<>>
    /\ (call.kind = "submit" /\ Len(elevators) > 0) => call.unit \in Units

\* No step of a call submitted to an empty registry changes an elevator, a
\* queue or a panel.
EmptyRegistryFrame ==
    ((call.kind = "submit" \/ call'.kind = "submit") /\ Len(elevators) = 0) =>
        UNCHANGED <<elevators, observers>>

\* C9: with no elevators registered selectElevator returns none and a
\* submitted call changes no elevator, queue or panel and writes no status
\* line; calls submitted once elevators are registered select one of them.
EmptyRegistryHarmless == []EmptyRegistryDrops /\ [][EmptyRegistryFrame]_vars

\* A call submitted to an empty registry, with a panel registered, has returned.
EmptyRegistryHarmlessWitness ==
    /\ pc = "done" /\ call.kind = "submit" /\ call.unit = 0
    /\ Len(elevators) = 0 /\ Len(observers) > 0

\* What the manager itself wrote for the call in progress.
ManagerLines == SelectSeq(trace, LAMBDA l : l.unit = 0)

\* C10: a call submitted with no elevators registered reports an outcome
\* that differs from what the manager reports for a call it assigned.
NoElevatorReported ==
    (pc = "done" /\ call.kind = "submit" /\ call.unit = 0) =>
        ManagerLines # <<Line("request", 0, call.floor, "")>>

\* C11: when a call for the floor where the chosen elevator already sits has
\* returned, every registered observer has received no floor-step event and
\* exactly one Idle event at that floor.
DegenerateTripEvents ==
    (pc = "done" /\ call.kind = "submit" /\ call.unit # 0
     /\ call.floor = call.start) =>
        \A p \in 1..Len(observers) :
            Received(p) = <<update(p, call.floor, "IDLE")>>

\* C12: when notifyObservers(floor, state) has returned with N observers
\* registered, update has been called exactly once on each of them with that
\* floor and state, in registration order: the N lines are those of panels
\* 1..N in this order and every panel displays the floor.
ObserverFanOut ==
    (pc = "done" /\ call.kind = "notify") =>
        /\ Len(trace) = Len(observers)
        /\ \A p \in 1..Len(observers) :
              /\ trace[p] = [ev |-> "update", unit |-> p,
                              floor |-> call.floor, state |-> call.state]
              /\ observers[p] = call.floor

\* A notification of a floor other than the initial display, in a moving
\* state, has reached three panels.
ObserverFanOutWitness ==
    /\ pc = "done" /\ call.kind = "notify" /\ Len(observers) = 3
    /\ call.floor = 2 /\ call.state = "MOVING_UP"
    /\ Len(trace) = 3

\* A step of a submitted call: the selection changes no elevator, and every
\* later step leaves every elevator but the chosen one as it was.
DispatchFrameStep ==
    /\ (pc = "idle" /\ call'.kind = "submit") => elevators' = elevators
    /\ (call.kind = "submit") =>
          /\ Len(elevators') = Len(elevators)
          /\ \A i \in Units : i # call.unit => elevators'[i] = elevators[i]

\* C13: selectElevator changes no elevator's floor, state or queue, and a
\* submitted call changes at most the chosen elevator: every other registered
\* elevator has the same floor, state and queue after the call as before it.
DispatchFrame == [][DispatchFrameStep]_vars

\* A submitted call has returned after a trip of the second elevator, the
\* first one standing at another floor than where it started.
DispatchFrameWitness ==
    /\ pc = "done" /\ call.kind = "submit" /\ call.unit = 2
    /\ call.start # call.floor /\ Chosen.currentFloor = call.floor
    /\ elevators[1].currentFloor # 1

\* The lines the step writes.
NewLines ==
    IF pc = "idle" THEN trace' ELSE SubSeq(trace', Len(trace) + 1, Len(trace'))

\* The elevators whose floor or state the step changes.
Changed ==
    {i \in Units : \/ elevators'[i].currentFloor # elevators[i].currentFloor
                   \/ elevators'[i].state # elevators[i].state}

\* The lines owed for what the step changes of elevator i: one per floor
\* passed, then one if the state has changed.
ChangeLines(i) ==
    LET a == elevators[i].currentFloor
        b == elevators'[i].currentFloor
    IN  [k \in 1..Abs(b - a) |-> Line("floor", i, IF b > a THEN a + k ELSE a - k, "")]
        \o (IF elevators'[i].state # elevators[i].state
              THEN <<Line("state", i, 0, elevators'[i].state)>> ELSE <<>>)

\* A step inside a call extends the trace by the lines of its changes and by
\* no other floor or state line; a step that returns or registers changes no
\* elevator.
TraceStep ==
    /\ (pc' = "idle") => Changed = {}
    /\ (pc' # "idle") =>
          /\ pc # "idle" => /\ Len(trace') >= Len(trace)
                            /\ SubSeq(trace', 1, Len(trace)) = trace
          /\ Cardinality(Changed) <= 1
          /\ SelectSeq(NewLines, LAMBDA l : l.ev \in {"floor", "state"})
               = IF Changed = {} THEN <<>> ELSE ChangeLines(CHOOSE i \in Changed : TRUE)

\* C14: the trace holds exactly one floor-step line for each single-floor
\* change of an elevator's floor and exactly one state-change line for each
\* state transition, none for a request that changes nothing, in the order
\* in which the changes happen.
TraceCompleteness == [][TraceStep]_vars

\* A call has returned after a two-floor ascent of an elevator that was
\* already MovingUp: two floor lines, then the line of the stop, and none
\* for the moveUp request.
TraceCompletenessWitness ==
    /\ pc = "done" /\ Enqueued /\ call.recv = "MOVING_UP"
    /\ call.target = call.start + 2
    /\ Len(StatusLines) = 3
    /\ StatusLines[3] = Line("state", call.unit, 0, "IDLE")

\* A step that changes an elevator's floor is a step of the movement loop of
\* the call's elevator, by one floor, nearer to the head of its queue, in
\* the state of that direction.
FloorStep ==
    \A i \in Units :
        elevators'[i].currentFloor # elevators[i].currentFloor =>
            /\ pc = "moving" /\ i = call.unit
            /\ elevators[i].floorQueue # <<>>
            /\ LET a == elevators[i].currentFloor
                   b == elevators'[i].currentFloor
                   t == Head(elevators[i].floorQueue)
               IN  /\ b - a \in {1, -1}
                   /\ Abs(t - b) < Abs(t - a)
                   /\ elevators'[i].state = elevators[i].state
                   /\ elevators[i].state # "IDLE"
                   /\ (b - a = 1) => elevators[i].state = "MOVING_UP"
                   /\ (b - a = -1) => elevators[i].state = "MOVING_DOWN"

\* The movement loop is left at the target and only there.
LoopExit ==
    /\ (pc = "moving" /\ pc' = "done") =>
          /\ Chosen.currentFloor = Head(Chosen.floorQueue)
          /\ elevators'[call.unit].currentFloor = Chosen.currentFloor
    /\ (pc = "moving" /\ pc' = "moving") =>
          Chosen.currentFloor # Head(Chosen.floorQueue)

\* C15: every change of an elevator's floor is by one floor up or down,
\* strictly nearer to the head of its queue, while the elevator is MovingUp
\* (up) or MovingDown (down) and never Idle, and the movement loop stops
\* exactly when the floor equals the target.
SingleFloorSteps == [][FloorStep /\ LoopExit]_vars

\* An elevator is one floor into a two-floor descent.
SingleFloorStepsWitness ==
    /\ pc = "moving" /\ Chosen.state = "MOVING_DOWN"
    /\ call.target = call.start - 2
    /\ Chosen.currentFloor = call.start - 1

\* The elevators that are not Idle.
Moving == {i \in Units : elevators[i].state # "IDLE"}

\* C16: at most one elevator is not Idle, it is the one whose trip is in
\* progress, and when a call is entered or has returned every elevator is Idle.
SerializedTrips ==
    /\ Cardinality(Moving) <= 1
    /\ pc = "moving" => Moving \subseteq {call.unit}
    /\ pc \in {"idle", "selected", "done"} => Moving = {}

\* The second elevator is on a trip while the first one, Idle, stands at a
\* floor it was sent to earlier.
SerializedTripsWitness ==
    /\ pc = "moving" /\ Len(elevators) = 2 /\ call.unit = 2
    /\ elevators[2].state = "MOVING_DOWN"
    /\ elevators[1].state = "IDLE" /\ elevators[1].currentFloor # 1

\* C17: when a submitted call returns, the floor it appended has been
\* serviced (the chosen elevator is at that floor and the entry was popped)
\* and the chosen elevator's queue has been driven to empty.
FullCompletion ==
    (pc = "done" /\ call.kind = "submit" /\ call.unit # 0) =>
        /\ Chosen.floorQueue = <<>>
        /\ call.serviced # <<>>
        /\ call.serviced[Len(call.serviced)] = call.floor
        /\ Chosen.currentFloor = call.floor

\* The first elevator, in registration order, at the least distance from floor f.
FirstNearest(f) ==
    CHOOSE i \in Units :
        /\ \A j \in Units : Distance(i, f) <= Distance(j, f)
        /\ \A j \in Units : Distance(j, f) = Distance(i, f) => i <= j

\* What a call for floor f leaves of an elevator that stood at floor a with
\* queue q: a trip to f when the queue was empty and f is another floor,
\* one more queue entry otherwise.  The direction plays no part.
AfterCall(a, q, f) ==
    IF q = <<>> /\ a # f
      THEN [currentFloor |-> f, state |-> "IDLE", floorQueue |-> <<>>]
      ELSE [currentFloor |-> a, state |-> "IDLE", floorQueue |-> Append(q, f)]

RestShape ==
    pc = "idle" =>
        \A i \in Units :
            \/ elevators[i].floorQueue = <<>>
            \/ Head(elevators[i].floorQueue) = elevators[i].currentFloor

\* Elevator i has a non-empty queue and is not on a trip.
Parked(i) ==
    /\ elevators[i].floorQueue # <<>>
    /\ pc = "moving" => call.unit # i

\* A parked elevator stays parked where it is, in the state it has, and its
\* queue changes only by the floor of a call assigned to it, appended.
ParkedStep ==
    \A i \in Units :
        Parked(i) =>
            /\ Parked(i)'
            /\ elevators'[i].currentFloor = elevators[i].currentFloor
            /\ elevators'[i].state = elevators[i].state
            /\ elevators'[i].floorQueue # elevators[i].floorQueue =>
                  /\ call'.unit = i /\ pc' = "done"
                  /\ elevators'[i].floorQueue
                       = Append(elevators[i].floorQueue, call'.floor)

\* C19: whenever no call is in progress each queue is empty or has its
\* elevator's floor at the head; and an elevator whose queue is non-empty at
\* rest never again changes floor or state, every later call assigned to it
\* only lengthening its queue by one.
RestQueueShape == []RestShape /\ [][ParkedStep]_vars

\* A call for another floor has returned from an elevator whose queue was
\* not empty: the elevator has not moved and its queue holds two entries.
RestQueueShapeWitness ==
    /\ pc = "done" /\ Enqueued /\ call.pending # <<>>
    /\ call.floor # call.start
    /\ Chosen.currentFloor = call.start
    /\ Len(Chosen.floorQueue) = Len(call.pending) + 1

\* Every elevator is at a floor of the range of the call floors, and during
\* a trip between the floor it left and its target.
FloorsInRange ==
    /\ \A i \in Units : elevators[i].currentFloor \in Floors
    /\ pc = "moving" =>
          \/ call.start <= Chosen.currentFloor /\ Chosen.currentFloor <= call.target
          \/ call.target <= Chosen.currentFloor /\ Chosen.currentFloor <= call.start

\* An elevator that has just been created is at floor 1.
StartsAtOne ==
    Len(elevators') > Len(elevators) =>
        elevators'[Len(elevators')].currentFloor = 1

\* C20: every elevator starts at floor 1, and with every call floor in
\* 1..MaxFloor every elevator's floor is in 1..MaxFloor in every reachable
\* state, the intermediate steps of a trip included.
FloorRange == []FloorsInRange /\ [][StartsAtOne]_vars

\* An elevator is strictly between the top floor, which it left, and floor 1,
\* its target.
FloorRangeWitness ==
    /\ pc = "moving" /\ call.start = MaxFloor /\ call.target = 1
    /\ Chosen.currentFloor < call.start /\ Chosen.currentFloor > call.target

=============================================================================
